---- MODULE Spec2Model ----
(***************************************************************************)
(* dynamodb-atomic-counter (src/atomic-counter.ts): atomic counters kept   *)
(* in a DynamoDB table.  The model holds the module state (dynamoClient),  *)
(* the table items, the UpdateItem/GetItem requests and responses in       *)
(* flight, the promise each call builds, the AtomicCounterPromiseImpl      *)
(* wrapped around it, and a log of every callback invocation.              *)
(***************************************************************************)
EXTENDS Integers, Sequences, FiniteSets, TLC

(* ------------------------------ bounds -------------------------------- *)

\* Invocations of increment/getLastValue explored concurrently.
MaxOps == 3

\* done/fail/always registrations explored on one result object.
MaxObservers == 2

\* setClient calls explored beside two invocations.
MaxSetClients == 1

(* ------------------------- program constants -------------------------- *)

DEFAULT_TABLE_NAME == "AtomicCounters"

DEFAULT_KEY_ATTRIBUTE == "id"

DEFAULT_COUNT_ATTRIBUTE == "lastValue"

DEFAULT_INCREMENT == 1

(* ------------------------------ values -------------------------------- *)

\* A string option that was not supplied.
Undefined == "undefined"

\* A number option that was not supplied is <<>>, a supplied n is <<n>>.
NoNumber == <<>>

\* Client handles are pairs <<origin, id>>.
NoClient == <<"none", 0>>

\* The k-th handle built by `new DynamoDBClient({})`.
NewClient(k) == <<"new", k>>

\* What a callback receives: a number, or an error.
Val(n) == [isError |-> FALSE, num |-> n, error |-> "none"]

Err(e) == [isError |-> TRUE, num |-> 0, error |-> e]

\* The error a rejected client.send() carries.
StoreError == Err("StoreError")

\* What a throwing callback throws.
Thrown(who) == Err("thrown by " \o who)

(* ----------------------- number <-> string ---------------------------- *)

Digit == <<"0", "1", "2", "3", "4", "5", "6", "7", "8", "9">>

DigitValue(c) == (CHOOSE d \in 1..10 : Digit[d] = c) - 1

IsDigit(c) == \E d \in 1..10 : Digit[d] = c

RECURSIVE DigitsOf(_)
DigitsOf(n) == IF n < 10 THEN <<Digit[n + 1]>>
               ELSE DigitsOf(n \div 10) \o <<Digit[(n % 10) + 1]>>

\* Number.prototype.toString() of an integer: a sequence of characters.
toString(n) == IF n < 0 THEN <<"-">> \o DigitsOf(-n) ELSE DigitsOf(n)

\* The longest prefix of s made of digits.
RECURSIVE DigitPrefix(_)
DigitPrefix(s) == IF s = <<>> \/ ~IsDigit(Head(s)) THEN <<>>
                  ELSE <<Head(s)>> \o DigitPrefix(Tail(s))

RECURSIVE DigitsValue(_)
DigitsValue(s) == IF s = <<>> THEN 0
                  ELSE 10 * DigitsValue(SubSeq(s, 1, Len(s) - 1)) + DigitValue(s[Len(s)])

\* A parseInt that drops the sign.
parseIntUnsigned(s) ==
    LET signed == s # <<>> /\ Head(s) \in {"-", "+"}
        digits == DigitPrefix(IF signed THEN Tail(s) ELSE s)
    IN  IF digits = <<>> THEN [nan |-> TRUE, n |-> 0]
        ELSE [nan |-> FALSE, n |-> DigitsValue(digits)]

\* parseInt(s, 10): an optional sign, then digits up to the first other
\* character; NaN when there is no digit.
parseInt(s) ==
    LET signed == s # <<>> /\ Head(s) \in {"-", "+"}
        digits == DigitPrefix(IF signed THEN Tail(s) ELSE s)
    IN  IF digits = <<>> THEN [nan |-> TRUE, n |-> 0]
        ELSE [nan |-> FALSE,
              n |-> IF signed /\ Head(s) = "-" THEN -DigitsValue(digits)
                    ELSE DigitsValue(digits)]

isNaN(x) == x.nan

(* ------------------------------- store -------------------------------- *)

Counters == {"Users", "Clients"}

Tables == {DEFAULT_TABLE_NAME, "MyCounters"}

\* The hash key attribute each table was created with.
KeySchema(table) == IF table = DEFAULT_TABLE_NAME THEN DEFAULT_KEY_ATTRIBUTE
                    ELSE "counterName"

CountAttributes == {DEFAULT_COUNT_ATTRIBUTE, "currentValue"}

\* A stored attribute: absent, a number (type N) or a string (type S).
NoAttribute == [type |-> "absent", n |-> 0]

NumberAttribute(n) == [type |-> "N", n |-> n]

StringAttribute == [type |-> "S", n |-> 0]

\* A count attribute the store answers with an N that is not a number
\* string: the digits of n followed by a letter ("7x"), or a letter alone.
GarbledAttribute(n) == [type |-> "garbled", n |-> n]

JunkAttribute == [type |-> "junk", n |-> 0]

NoItem == [exists |-> FALSE, attrs |-> [a \in CountAttributes |-> NoAttribute]]

EmptyItem == [exists |-> TRUE, attrs |-> [a \in CountAttributes |-> NoAttribute]]

\* The AttributeValue of a response: {N: "..."} or {S: "..."}; a field
\* that is not there (undefined) is <<>>.
AttributeValue(a) == [N |-> CASE a.type = "N" -> toString(a.n)
                             [] a.type = "garbled" -> toString(a.n) \o <<"x">>
                             [] a.type = "junk" -> <<"x">>
                             [] OTHER -> <<>>,
                      S |-> IF a.type = "S" THEN <<"x">> ELSE <<>>]

\* The attributes of `item` among `names` that exist, as a response map.
ResponseMap(item, names) ==
    [a \in {x \in names \cap CountAttributes : item.attrs[x].type # "absent"}
        |-> AttributeValue(item.attrs[a])]

NoMap == [a \in {} |-> 0]

\* DynamoDB's reading of a number string of a request.
NumberOf(s) == IF Head(s) = "-" THEN -DigitsValue(Tail(s)) ELSE DigitsValue(s)

\* Whether the table exists and the request's Key names its hash key.
ValidKey(params) == /\ params.TableName \in Tables
                    /\ params.Key.attribute = KeySchema(params.TableName)
                    /\ params.Key.S \in Counters

\* UpdateItem on the items `st`: the items afterwards and the response.
\* ADD creates the item or the attribute when absent, and is refused on an
\* attribute that is not a number; SET (reachable only through a raw
\* override) assigns.
UpdateItem(params, st) ==
    LET k == <<params.TableName, params.Key.S>>
        expr == params.UpdateExpression
        attr == expr[2]
        old == st[k].attrs[attr]
        amount == NumberOf(params.ExpressionAttributeValues.N)
        new == IF expr[1] = "ADD" /\ old.type = "N" THEN old.n + amount ELSE amount
        item == [exists |-> TRUE,
                 attrs |-> [st[k].attrs EXCEPT ![attr] = NumberAttribute(new)]]
    IN  IF \/ ~ValidKey(params)
           \/ params.ExpressionAttributeValues.name # expr[3]
           \/ (expr[1] = "ADD" /\ old.type \notin {"absent", "N"})
        THEN [ok |-> FALSE, store |-> st, Attributes |-> NoMap]
        ELSE [ok |-> TRUE, store |-> [st EXCEPT ![k] = item],
              Attributes |-> CASE params.ReturnValues = "UPDATED_NEW" -> ResponseMap(item, {attr})
                               [] params.ReturnValues = "UPDATED_OLD" -> ResponseMap(st[k], {attr})
                               [] OTHER -> NoMap]

\* GetItem on the items `st`: no Item when there is none, else the
\* projected attributes the item has.
GetItem(params, st) ==
    LET k == <<params.TableName, params.Key.S>>
    IN  IF ~ValidKey(params) THEN [ok |-> FALSE, hasItem |-> FALSE, Item |-> NoMap]
        ELSE [ok |-> TRUE, hasItem |-> st[k].exists,
              Item |-> ResponseMap(st[k], {params.ProjectionExpression})]

(* -------------------------- client manager ---------------------------- *)

VARIABLES
    dynamoClient,   \* the module-level client handle, NoClient while null
    created,        \* how many handles `new DynamoDBClient({})` has built
    store,          \* [Tables \X Counters -> item]
    pc,             \* per invocation: where it is
    call,           \* per invocation: kind, counterId, options, client, request
    wire,           \* per invocation: the request in flight, then its response
    promise,        \* per invocation: the promise built by `new Promise`
    impl,           \* per invocation: the AtomicCounterPromiseImpl fields
    log,            \* per invocation: every callback invocation, in order
    registered,     \* every done/fail/always registration, in order
    applied,        \* the invocations whose request the store ran, in order
    lastSet,        \* the handle of the latest setClient, NoClient if none
    store0,         \* the store's items when the program started
    budget          \* what is left to explore: invocations, observers

vars == <<dynamoClient, created, store, pc, call, wire, promise, impl, log,
          registered, applied, lastSet, store0, budget>>

Ops == 1..MaxOps

\* A getDynamoClient that builds a handle whenever none is passed.
getDynamoClientFresh(clientOverride) ==
    IF clientOverride # NoClient
    THEN [client |-> clientOverride, dynamoClient |-> dynamoClient, created |-> created]
    ELSE [client |-> NewClient(created + 1), dynamoClient |-> NewClient(created + 1),
          created |-> created + 1]

\* A getDynamoClient that keeps the handle passed to it as the module handle.
getDynamoClientCaching(clientOverride) ==
    IF clientOverride # NoClient
    THEN [client |-> clientOverride, dynamoClient |-> clientOverride, created |-> created]
    ELSE IF dynamoClient = NoClient
    THEN [client |-> NewClient(created + 1), dynamoClient |-> NewClient(created + 1),
          created |-> created + 1]
    ELSE [client |-> dynamoClient, dynamoClient |-> dynamoClient, created |-> created]

\* getDynamoClient(clientOverride): the handle returned, and the module
\* handle and creation count it leaves behind.
getDynamoClient(clientOverride) ==
    IF clientOverride # NoClient
    THEN [client |-> clientOverride, dynamoClient |-> dynamoClient, created |-> created]
    ELSE IF dynamoClient = NoClient
    THEN [client |-> NewClient(created + 1), dynamoClient |-> NewClient(created + 1),
          created |-> created + 1]
    ELSE [client |-> dynamoClient, dynamoClient |-> dynamoClient, created |-> created]

(* ------------------------------ options ------------------------------- *)

\* x || d for a string option: undefined and "" are falsy.
OrString(x, d) == IF x = Undefined \/ x = "" THEN d ELSE x

\* x || d for a number option: undefined and 0 are falsy.
OrNumber(x, d) == IF x = NoNumber \/ x[1] = 0 THEN d ELSE x[1]

\* A merge in which the derived field wins on a name both have.
SpreadDerivedWins(derived, overrides) ==
    [f \in DOMAIN derived \cup DOMAIN overrides |->
        IF f \in DOMAIN derived THEN derived[f] ELSE overrides[f]]

\* {...derived, ...overrides}: a field of `overrides` replaces the field of
\* the same name, a field only one of them has is kept.
Spread(derived, overrides) ==
    [f \in DOMAIN derived \cup DOMAIN overrides |->
        IF f \in DOMAIN overrides THEN overrides[f] ELSE derived[f]]

AllCallbacks == {"success", "error", "complete"}

NoOptions == [tableName |-> Undefined, keyAttribute |-> Undefined,
              countAttribute |-> Undefined, increment |-> NoNumber,
              callbacks |-> {}, client |-> NoClient, dynamodb |-> NoMap]

WithCallbacks == [NoOptions EXCEPT !.callbacks = AllCallbacks]

\* The README's "Custom Table and Attributes" call.
CustomOptions == [WithCallbacks EXCEPT !.tableName = "MyCounters",
                                       !.keyAttribute = "counterName",
                                       !.countAttribute = "currentValue",
                                       !.increment = <<5>>]

PerCallClient == <<"perCall", 1>>

\* Raw request fields a caller may pass in options.dynamodb.
KeyOverride == [Key |-> [attribute |-> DEFAULT_KEY_ATTRIBUTE, S |-> "Clients"]]

ReturnValuesOverride == [ReturnValues |-> "UPDATED_OLD"]

UpdateExpressionOverride ==
    [UpdateExpression |-> <<"SET", DEFAULT_COUNT_ATTRIBUTE, ":increment">>]

\* Overrides of the remaining request fields.
AmountOverride ==
    [ExpressionAttributeValues |-> [name |-> ":increment", N |-> toString(4)]]

ProjectionOverride == [ProjectionExpression |-> "currentValue"]

TableNameOverride == [TableName |-> "MyCounters"]

\* An override that assigns and asks for the value before the update.
OldValueOverride ==
    [UpdateExpression |-> <<"SET", DEFAULT_COUNT_ATTRIBUTE, ":increment">>,
     ReturnValues |-> "UPDATED_OLD"]

\* The calls the model makes: [kind, counterId, options].
Call(kind, counterId, options) ==
    [kind |-> kind, counterId |-> counterId, options |-> options]

\* The call of the README's basic usage.
DefaultCall == Call("increment", "Users", NoOptions)

\* Calls on one counter that pass at most an amount and the callbacks.
PlainCalls ==
    { DefaultCall,
      Call("increment", "Users", [WithCallbacks EXCEPT !.increment = <<-1>>]),
      Call("getLastValue", "Users", WithCallbacks) }

SpecialCalls ==
    { Call("increment", "Clients", WithCallbacks),
      Call("getLastValue", "Clients", NoOptions) }
    \cup { Call("increment", "Users", o) : o \in
        { CustomOptions,
          [WithCallbacks EXCEPT !.increment = <<5>>],
          [WithCallbacks EXCEPT !.increment = <<0>>],
          [WithCallbacks EXCEPT !.callbacks = {"success"}],
          [WithCallbacks EXCEPT !.client = PerCallClient],
          [WithCallbacks EXCEPT !.dynamodb = KeyOverride],
          [WithCallbacks EXCEPT !.dynamodb = ReturnValuesOverride],
          [WithCallbacks EXCEPT !.dynamodb = UpdateExpressionOverride],
          [WithCallbacks EXCEPT !.dynamodb = OldValueOverride],
          [WithCallbacks EXCEPT !.dynamodb = AmountOverride] } }
    \cup { Call("getLastValue", "Users", o) : o \in
        { CustomOptions,
          [WithCallbacks EXCEPT !.client = PerCallClient],
          [WithCallbacks EXCEPT !.dynamodb = KeyOverride],
          [WithCallbacks EXCEPT !.dynamodb = ProjectionOverride],
          [WithCallbacks EXCEPT !.dynamodb = TableNameOverride] } }

IncrementCalls == {c \in PlainCalls \cup SpecialCalls : c.kind = "increment"}

GetLastValueCalls == {c \in PlainCalls \cup SpecialCalls : c.kind = "getLastValue"}

IsSpecial(c) == c \in SpecialCalls

\* An increment that writes the amount instead of adding it.
incrementParamsAssign(counterId, options) ==
    LET countAttribute == OrString(options.countAttribute, DEFAULT_COUNT_ATTRIBUTE)
    IN  Spread([TableName |-> OrString(options.tableName, DEFAULT_TABLE_NAME),
                Key |-> [attribute |-> OrString(options.keyAttribute, DEFAULT_KEY_ATTRIBUTE),
                         S |-> counterId],
                UpdateExpression |-> <<"SET", countAttribute, ":increment">>,
                ExpressionAttributeValues |->
                    [name |-> ":increment",
                     N |-> toString(OrNumber(options.increment, DEFAULT_INCREMENT))],
                ReturnValues |-> "UPDATED_NEW"],
               options.dynamodb)

\* An increment that asks for the values before the update.
incrementParamsOld(counterId, options) ==
    LET countAttribute == OrString(options.countAttribute, DEFAULT_COUNT_ATTRIBUTE)
    IN  Spread([TableName |-> OrString(options.tableName, DEFAULT_TABLE_NAME),
                Key |-> [attribute |-> OrString(options.keyAttribute, DEFAULT_KEY_ATTRIBUTE),
                         S |-> counterId],
                UpdateExpression |-> <<"ADD", countAttribute, ":increment">>,
                ExpressionAttributeValues |->
                    [name |-> ":increment",
                     N |-> toString(OrNumber(options.increment, DEFAULT_INCREMENT))],
                ReturnValues |-> "UPDATED_OLD"],
               options.dynamodb)

\* The UpdateItemCommandInput increment builds.
incrementParams(counterId, options) ==
    LET keyAttribute == OrString(options.keyAttribute, DEFAULT_KEY_ATTRIBUTE)
        countAttribute == OrString(options.countAttribute, DEFAULT_COUNT_ATTRIBUTE)
        incrementValue == OrNumber(options.increment, DEFAULT_INCREMENT)
    IN  Spread([TableName |-> OrString(options.tableName, DEFAULT_TABLE_NAME),
                Key |-> [attribute |-> keyAttribute, S |-> counterId],
                UpdateExpression |-> <<"ADD", countAttribute, ":increment">>,
                ExpressionAttributeValues |->
                    [name |-> ":increment", N |-> toString(incrementValue)],
                ReturnValues |-> "UPDATED_NEW"],
               options.dynamodb)

\* The GetItemCommandInput getLastValue builds.
getLastValueParams(counterId, options) ==
    LET keyAttribute == OrString(options.keyAttribute, DEFAULT_KEY_ATTRIBUTE)
        countAttribute == OrString(options.countAttribute, DEFAULT_COUNT_ATTRIBUTE)
    IN  Spread([TableName |-> OrString(options.tableName, DEFAULT_TABLE_NAME),
                Key |-> [attribute |-> keyAttribute, S |-> counterId],
                ProjectionExpression |-> countAttribute],
               options.dynamodb)

(* ------------------------------- state -------------------------------- *)

NoCall == [kind |-> "none", counterId |-> "", options |-> NoOptions,
           client |-> NoClient, params |-> NoMap, quiet |-> FALSE]

\* What is between the client and the store: nothing, the request sent on
\* `client`, the data of a response, or the error of a failed send.
Wire(type, client, Attributes, hasItem, Item) ==
    [type |-> type, client |-> client, Attributes |-> Attributes,
     hasItem |-> hasItem, Item |-> Item]

NoWire == Wire("none", NoClient, NoMap, FALSE, NoMap)

SendError == Wire("error", NoClient, NoMap, FALSE, NoMap)

Pending == [state |-> "pending", value |-> Val(0)]

Fulfilled(v) == [state |-> "fulfilled", value |-> v]

Rejected(e) == [state |-> "rejected", value |-> e]

NewImpl == [resolved |-> FALSE, rejected |-> FALSE, value |-> Val(0),
            doneCallbacks |-> <<>>, failCallbacks |-> <<>>,
            alwaysCallbacks |-> <<>>]

NoItems == [k \in Tables \X Counters |-> NoItem]

\* Items a table may hold when the program starts: nothing, a counter item
\* without the count attribute, one that counted to 9, one whose count
\* attribute is a string, or one whose count comes back as "7x" or "x".
InitialStores ==
    LET users == <<DEFAULT_TABLE_NAME, "Users">>
    IN  { NoItems,
          [NoItems EXCEPT ![users] = EmptyItem],
          [NoItems EXCEPT ![users] =
              [EmptyItem EXCEPT !.attrs[DEFAULT_COUNT_ATTRIBUTE] = NumberAttribute(9)]],
          [NoItems EXCEPT ![users] =
              [EmptyItem EXCEPT !.attrs[DEFAULT_COUNT_ATTRIBUTE] = StringAttribute]],
          [NoItems EXCEPT ![users] =
              [EmptyItem EXCEPT !.attrs[DEFAULT_COUNT_ATTRIBUTE] = GarbledAttribute(7)]],
          [NoItems EXCEPT ![users] =
              [EmptyItem EXCEPT !.attrs[DEFAULT_COUNT_ATTRIBUTE] = JunkAttribute]] }

\* What is left to explore: calls, calls other than DefaultCall, calls of
\* SpecialCalls, failed sends, setClient calls, observers, and whether
\* callbacks throw.
Budget(ops, varied, special, failures, setClients, observers, throws) ==
    [ops |-> ops, varied |-> varied, special |-> special, failures |-> failures,
     setClients |-> setClients, observers |-> observers, throws |-> throws]

\* What a behaviour explores: MaxOps concurrent plain calls on empty
\* tables, two of them other than DefaultCall; or two plain calls and
\* MaxSetClients setClient calls; or two calls, one of them with any
\* options; or, on any initial tables, one call with any options whose
\* callbacks may throw; or one plain call with MaxObservers observers, where
\* callbacks and observers may throw.
Scenarios ==
    { [stores |-> {NoItems}, budget |-> Budget(MaxOps, 2, 0, 0, 0, 0, FALSE)],
      [stores |-> {NoItems}, budget |-> Budget(2, 1, 0, 0, MaxSetClients, 0, FALSE)],
      [stores |-> {NoItems}, budget |-> Budget(2, 2, 1, 2, 0, 0, FALSE)],
      [stores |-> InitialStores, budget |-> Budget(1, 1, 1, 1, 0, 0, TRUE)],
      [stores |-> {NoItems}, budget |-> Budget(1, 1, 0, 1, 0, MaxObservers, TRUE)] }

Init ==
    /\ dynamoClient = NoClient
    /\ created = 0
    /\ \E sc \in Scenarios : store \in sc.stores /\ budget = sc.budget
    /\ store0 = store
    /\ pc = [i \in Ops |-> "idle"]
    /\ call = [i \in Ops |-> NoCall]
    /\ wire = [i \in Ops |-> NoWire]
    /\ promise = [i \in Ops |-> Pending]
    /\ impl = [i \in Ops |-> NewImpl]
    /\ log = [i \in Ops |-> <<>>]
    /\ registered = <<>>
    /\ applied = <<>>
    /\ lastSet = NoClient

(* --------------------------- the public API --------------------------- *)

\* The slot the next invocation takes, and whether the budget allows it.
NextOp(i, c) == /\ pc[i] = "idle"
                /\ \A j \in Ops : j < i => pc[j] # "idle"
                /\ budget.ops > 0
                /\ c # DefaultCall => budget.varied > 0
                /\ IsSpecial(c) => budget.special > 0

\* What both increment and getLastValue do up to client.send(command)
\* and `new AtomicCounterPromiseImpl(promise)`.
Send(i, c, params) ==
    LET got == getDynamoClient(c.options.client)
    IN  /\ dynamoClient' = got.dynamoClient
        /\ created' = got.created
        /\ call' = [call EXCEPT ![i] =
                        [kind |-> c.kind, counterId |-> c.counterId,
                         options |-> c.options, client |-> got.client,
                         params |-> params,
                         quiet |-> \A j \in Ops : pc[j] \in {"idle", "settled"}]]
        /\ wire' = [wire EXCEPT ![i] = Wire("request", got.client, NoMap, FALSE, NoMap)]
        /\ pc' = [pc EXCEPT ![i] = "sent"]
        /\ budget' = [budget EXCEPT !.ops = @ - 1,
                                    !.varied = IF c # DefaultCall THEN @ - 1 ELSE @,
                                    !.special = IF IsSpecial(c) THEN @ - 1 ELSE @]
        /\ UNCHANGED <<store, promise, impl, log, registered, applied, lastSet, store0>>

increment(i, c) ==
    /\ NextOp(i, c)
    /\ Send(i, c, incrementParams(c.counterId, c.options))

getLastValue(i, c) ==
    /\ NextOp(i, c)
    /\ Send(i, c, getLastValueParams(c.counterId, c.options))

\* The handle a caller passes to setClient: a new one each time.
SetClientHandles == {<<"set", MaxSetClients - budget.setClients + 1>>}

setClient(client) ==
    /\ budget.setClients > 0
    /\ dynamoClient' = client
    /\ lastSet' = client
    /\ budget' = [budget EXCEPT !.setClients = @ - 1]
    /\ UNCHANGED <<created, store, pc, call, wire, promise, impl, log, registered,
                   applied, store0>>

getClient ==
    LET got == getDynamoClient(NoClient)
    IN  /\ dynamoClient' = got.dynamoClient
        /\ created' = got.created
        /\ UNCHANGED <<store, pc, call, wire, promise, impl, log, registered, applied,
                       lastSet, store0, budget>>

(* ------------------------------ the store ----------------------------- *)

\* The store runs the UpdateItem request and its response is on its way.
UpdateItemReply(i) ==
    /\ pc[i] = "sent" /\ call[i].kind = "increment"
    /\ LET r == UpdateItem(call[i].params, store)
       IN  /\ store' = r.store
           /\ applied' = IF r.ok THEN Append(applied, i) ELSE applied
           /\ wire' = [wire EXCEPT ![i] =
                          IF r.ok THEN Wire("data", NoClient, r.Attributes, FALSE, NoMap)
                          ELSE SendError]
    /\ pc' = [pc EXCEPT ![i] = "responded"]
    /\ UNCHANGED <<dynamoClient, created, call, promise, impl, log, registered, lastSet,
                   store0, budget>>

\* The store runs the UpdateItem request and the response never arrives:
\* client.send() rejects although the item was updated.
UpdateItemReplyLost(i) ==
    /\ budget.failures > 0
    /\ pc[i] = "sent" /\ call[i].kind = "increment"
    /\ LET r == UpdateItem(call[i].params, store)
       IN  /\ r.ok
           /\ store' = r.store
           /\ applied' = Append(applied, i)
    /\ wire' = [wire EXCEPT ![i] = SendError]
    /\ pc' = [pc EXCEPT ![i] = "responded"]
    /\ budget' = [budget EXCEPT !.failures = @ - 1]
    /\ UNCHANGED <<dynamoClient, created, call, promise, impl, log, registered, lastSet,
                   store0>>

\* A read that creates the item it does not find.
GetItemReplyCreates(i) ==
    /\ pc[i] = "sent" /\ call[i].kind = "getLastValue"
    /\ LET r == GetItem(call[i].params, store)
           k == <<call[i].params.TableName, call[i].params.Key.S>>
       IN  /\ store' = IF r.ok THEN [store EXCEPT ![k].exists = TRUE] ELSE store
           /\ applied' = IF r.ok THEN Append(applied, i) ELSE applied
           /\ wire' = [wire EXCEPT ![i] =
                          IF r.ok THEN Wire("data", NoClient, NoMap, r.hasItem, r.Item)
                          ELSE SendError]
    /\ pc' = [pc EXCEPT ![i] = "responded"]
    /\ UNCHANGED <<dynamoClient, created, call, promise, impl, log, registered,
                   lastSet, store0, budget>>

\* The store runs the GetItem request and its response is on its way.
GetItemReply(i) ==
    /\ pc[i] = "sent" /\ call[i].kind = "getLastValue"
    /\ LET r == GetItem(call[i].params, store)
       IN  /\ applied' = IF r.ok THEN Append(applied, i) ELSE applied
           /\ wire' = [wire EXCEPT ![i] =
                          IF r.ok THEN Wire("data", NoClient, NoMap, r.hasItem, r.Item)
                          ELSE SendError]
    /\ pc' = [pc EXCEPT ![i] = "responded"]
    /\ UNCHANGED <<dynamoClient, created, store, call, promise, impl, log, registered,
                   lastSet, store0, budget>>

\* The request never reaches the store (network, throttling, credentials):
\* client.send() rejects and no item changed.
SendFails(i) ==
    /\ budget.failures > 0
    /\ pc[i] = "sent"
    /\ wire' = [wire EXCEPT ![i] = SendError]
    /\ pc' = [pc EXCEPT ![i] = "responded"]
    /\ budget' = [budget EXCEPT !.failures = @ - 1]
    /\ UNCHANGED <<dynamoClient, created, store, call, promise, impl, log, registered,
                   applied, lastSet, store0>>

(* ---------------------- the callbacks of options ---------------------- *)

\* The most callbacks one settlement invokes: two (success or error, then
\* complete) in each of the .then handler, its catch block and the .catch
\* handler.
MaxCalls == 2 * 3

\* Which callback invocations of one settlement throw: the k-th invocation
\* throws iff throwing[k].

ThrowPatterns == IF budget.throws THEN [1..MaxCalls -> BOOLEAN]
                 ELSE {[k \in 1..MaxCalls |-> FALSE]}

\* executeCallback(callback, context, args): a callback that was not
\* supplied is skipped; a supplied one is invoked, and may throw.
executeCallback(name, arg, callbacks, throwing, done) ==
    IF name \in callbacks
    THEN [log |-> Append(done, [fn |-> name, id |-> 0, arg |-> arg]),
          threw |-> throwing[Len(done) + 1], error |-> Thrown(name)]
    ELSE [log |-> done, threw |-> FALSE, error |-> Thrown(name)]

\* executeCallback(options.<first>, ...); executeCallback(options.complete, ...)
Notify(first, arg, callbacks, throwing, done) ==
    LET a == executeCallback(first, arg, callbacks, throwing, done)
    IN  IF a.threw THEN a
        ELSE executeCallback("complete", arg, callbacks, throwing, a.log)

\* The .catch((error) => ...) of client.send(): error, complete, reject.
\* A callback that throws here leaves the promise pending for good.
sendCatch(error, callbacks, throwing, done) ==
    LET n == Notify("error", error, callbacks, throwing, done)
    IN  [log |-> n.log, promise |-> IF n.threw THEN Pending ELSE Rejected(error)]

\* The catch (error) block of the .then() handler: error, complete,
\* reject; what it throws goes to the .catch() handler.
tryCatch(error, callbacks, throwing, done) ==
    LET n == Notify("error", error, callbacks, throwing, done)
    IN  IF n.threw THEN sendCatch(n.error, callbacks, throwing, n.log)
        ELSE [log |-> n.log, promise |-> Rejected(error)]

\* The .then((data) => ...) handler once the value is extracted: success,
\* complete, resolve; a throw (of the extraction or of a callback) goes to
\* its catch block.
sendThen(extracted, callbacks, throwing) ==
    IF extracted.isError THEN tryCatch(extracted, callbacks, throwing, <<>>)
    ELSE LET n == Notify("success", extracted, callbacks, throwing, <<>>)
         IN  IF n.threw THEN tryCatch(n.error, callbacks, throwing, n.log)
             ELSE [log |-> n.log, promise |-> Fulfilled(extracted)]

\* increment's reading of data.Attributes[countAttribute].
newCountValue(data, countAttribute) ==
    IF countAttribute \notin DOMAIN data.Attributes
    THEN Err("No count attribute returned from DynamoDB")
    ELSE IF data.Attributes[countAttribute].N = <<>>
    THEN Err("Count attribute is not a number")
    ELSE IF isNaN(parseInt(data.Attributes[countAttribute].N))
    THEN Err("Could not parse incremented value")
    ELSE Val(parseInt(data.Attributes[countAttribute].N).n)

\* getLastValue's reading of data.Item[countAttribute]: 0 when there is
\* no item or no such attribute.
lastValue(data, countAttribute) ==
    IF ~data.hasItem \/ countAttribute \notin DOMAIN data.Item
    THEN Val(0)
    ELSE IF data.Item[countAttribute].N = <<>>
    THEN Err("Count attribute is not a number")
    ELSE IF isNaN(parseInt(data.Item[countAttribute].N))
    THEN Err("Could not parse count value")
    ELSE Val(parseInt(data.Item[countAttribute].N).n)

\* Handlers that drop the shared handle when the call failed.
OnSettledDropsClient(i, outcome) ==
    /\ log' = [log EXCEPT ![i] = @ \o outcome.log]
    /\ promise' = [promise EXCEPT ![i] = outcome.promise]
    /\ pc' = [pc EXCEPT ![i] = "handled"]
    /\ dynamoClient' = IF outcome.promise.state = "rejected" THEN NoClient
                       ELSE dynamoClient
    /\ UNCHANGED <<created, store, call, wire, impl, registered, applied,
                   lastSet, store0, budget>>

\* The settlement of client.send() reaches the handlers the call chained
\* on it; `outcome` is what they log and do to the call's promise.
OnSettled(i, outcome) ==
    /\ log' = [log EXCEPT ![i] = @ \o outcome.log]
    /\ promise' = [promise EXCEPT ![i] = outcome.promise]
    /\ pc' = [pc EXCEPT ![i] = "handled"]
    /\ UNCHANGED <<dynamoClient, created, store, call, wire, impl, registered, applied,
                   lastSet, store0, budget>>

incrementOnResponse(i) ==
    /\ pc[i] = "responded" /\ call[i].kind = "increment"
    /\ \E throwing \in ThrowPatterns :
        LET options == call[i].options
            countAttribute == OrString(options.countAttribute, DEFAULT_COUNT_ATTRIBUTE)
        IN  OnSettled(i,
                IF wire[i].type = "data"
                THEN sendThen(newCountValue(wire[i], countAttribute),
                              options.callbacks, throwing)
                ELSE sendCatch(StoreError, options.callbacks, throwing, <<>>))

getLastValueOnResponse(i) ==
    /\ pc[i] = "responded" /\ call[i].kind = "getLastValue"
    /\ \E throwing \in ThrowPatterns :
        LET options == call[i].options
            countAttribute == OrString(options.countAttribute, DEFAULT_COUNT_ATTRIBUTE)
        IN  OnSettled(i,
                IF wire[i].type = "data"
                THEN sendThen(lastValue(wire[i], countAttribute),
                              options.callbacks, throwing)
                ELSE sendCatch(StoreError, options.callbacks, throwing, <<>>))

(* --------------------- AtomicCounterPromiseImpl ------------------------ *)

\* A forEach that visits the list from its last element to its first.
forEachReversed(fn, callbacks, arg, stop) ==
    [k \in 1..(IF stop = 0 THEN Len(callbacks) ELSE stop) |->
        [fn |-> fn, id |-> callbacks[Len(callbacks) + 1 - k], arg |-> arg]]

\* callbacks.forEach(cb => cb(arg)) where the `stop`-th callback throws
\* (0: none does): the invocations made.
forEach(fn, callbacks, arg, stop) ==
    [k \in 1..(IF stop = 0 THEN Len(callbacks) ELSE stop) |->
        [fn |-> fn, id |-> callbacks[k], arg |-> arg]]

\* The two forEach loops of a constructor handler, where the `stop`-th
\* callback of both lists together throws (0: none does).
Deliver(first, firstCallbacks, alwaysCallbacks, arg, stop) ==
    IF stop # 0 /\ stop <= Len(firstCallbacks)
    THEN forEach(first, firstCallbacks, arg, stop)
    ELSE forEach(first, firstCallbacks, arg, 0)
         \o forEach("always", alwaysCallbacks, arg,
                    IF stop = 0 THEN 0 ELSE stop - Len(firstCallbacks))

\* Which callback of a delivery throws.
Stops(n) == IF budget.throws THEN 0..n ELSE {0}

\* this.promise.then((value) => ...): the first handler of the constructor.
implThen(i) ==
    /\ pc[i] = "handled" /\ promise[i].state = "fulfilled"
    /\ \E stop \in Stops(Len(impl[i].doneCallbacks) + Len(impl[i].alwaysCallbacks)) :
        /\ impl' = [impl EXCEPT ![i].resolved = TRUE, ![i].value = promise[i].value]
        /\ log' = [log EXCEPT ![i] = @ \o Deliver("done", impl[i].doneCallbacks,
                                                 impl[i].alwaysCallbacks,
                                                 promise[i].value, stop)]
        /\ pc' = [pc EXCEPT ![i] = IF stop = 0 THEN "settled" ELSE "thenThrew"]
    /\ UNCHANGED <<dynamoClient, created, store, call, wire, promise, registered,
                   applied, lastSet, store0, budget>>

\* .catch((error) => ...): the second handler of the constructor, run when
\* the promise rejects and when the first handler throws.
implCatch(i) ==
    /\ \/ pc[i] = "handled" /\ promise[i].state = "rejected"
       \/ pc[i] = "thenThrew"
    /\ \E stop \in Stops(Len(impl[i].failCallbacks) + Len(impl[i].alwaysCallbacks)) :
        LET error == IF pc[i] = "thenThrew" THEN Thrown("observer")
                     ELSE promise[i].value
        IN  /\ impl' = [impl EXCEPT ![i].rejected = TRUE, ![i].value = error]
            /\ log' = [log EXCEPT ![i] = @ \o Deliver("fail", impl[i].failCallbacks,
                                                     impl[i].alwaysCallbacks,
                                                     error, stop)]
    /\ pc' = [pc EXCEPT ![i] = "settled"]
    /\ UNCHANGED <<dynamoClient, created, store, call, wire, promise, registered,
                   applied, lastSet, store0, budget>>

\* The id the next registered observer gets.
NextObserver == Len(registered) + 1

\* What done, fail and always share: the registration is recorded with the
\* flags it found, and the callback is invoked now or queued or dropped.
Register(i, fn, invoke, queue) ==
    /\ pc[i] # "idle"
    /\ budget.observers > 0
    /\ budget' = [budget EXCEPT !.observers = @ - 1]
    /\ registered' = Append(registered, [op |-> i, fn |-> fn, id |-> NextObserver,
                                         resolved |-> impl[i].resolved,
                                         rejected |-> impl[i].rejected,
                                         value |-> impl[i].value])
    /\ log' = [log EXCEPT ![i] =
                  IF invoke THEN Append(@, [fn |-> fn, id |-> NextObserver,
                                            arg |-> impl[i].value])
                  ELSE @]
    /\ impl' = IF queue THEN [impl EXCEPT ![i][fn \o "Callbacks"] = Append(@, NextObserver)]
               ELSE impl
    /\ UNCHANGED <<dynamoClient, created, store, pc, call, wire, promise, applied,
                   lastSet, store0>>

done(i) == Register(i, "done", impl[i].resolved,
                    ~impl[i].resolved /\ ~impl[i].rejected)

fail(i) == Register(i, "fail", impl[i].rejected,
                    ~impl[i].rejected /\ ~impl[i].resolved)

always(i) == Register(i, "always", impl[i].resolved \/ impl[i].rejected,
                      ~(impl[i].resolved \/ impl[i].rejected))

Next ==
    \/ \E i \in Ops, c \in IncrementCalls : increment(i, c)
    \/ \E i \in Ops, c \in GetLastValueCalls : getLastValue(i, c)
    \/ \E h \in SetClientHandles : setClient(h)
    \/ getClient
    \/ \E i \in Ops : UpdateItemReply(i)
    \/ \E i \in Ops : UpdateItemReplyLost(i)
    \/ \E i \in Ops : GetItemReply(i)
    \/ \E i \in Ops : SendFails(i)
    \/ \E i \in Ops : incrementOnResponse(i)
    \/ \E i \in Ops : getLastValueOnResponse(i)
    \/ \E i \in Ops : implThen(i)
    \/ \E i \in Ops : implCatch(i)
    \/ \E i \in Ops : done(i)
    \/ \E i \in Ops : fail(i)
    \/ \E i \in Ops : always(i)

Spec == Init /\ [][Next]_vars

\* The reactions of the result object of one call.
Reactions(i) == implThen(i) \/ implCatch(i)

\* The event loop runs the reactions of a settled promise: once the promise
\* of a call has settled, a handler of its result object runs.
Live == Spec /\ \A i \in Ops : WF_vars(Reactions(i))

(* ------------------------ what the calls report ------------------------ *)

Increments == {i \in Ops : call[i].kind = "increment"}

Lookups == {i \in Ops : call[i].kind = "getLastValue"}

\* The handlers chained on client.send() have run.
Handled(i) == pc[i] \in {"handled", "thenThrew", "settled"}

\* The call reported a value to its caller: it resolved its promise, or it
\* gave the value to the first callback of options before one threw.
Succeeded(i) ==
    /\ Handled(i)
    /\ \/ promise[i].state = "fulfilled"
       \/ /\ log[i] # <<>>
          /\ log[i][1].fn \in {"success", "complete"}
          /\ ~log[i][1].arg.isError

\* The value a call that succeeded reported.
Returned(i) == IF promise[i].state = "fulfilled" THEN promise[i].value.num
               ELSE log[i][1].arg.num

\* The item and the attribute the request of a call names.
Item(i) == <<call[i].params.TableName, call[i].params.Key.S>>

Target(i) == <<call[i].params.TableName, call[i].params.Key.S,
               IF call[i].kind = "increment" THEN call[i].params.UpdateExpression[2]
               ELSE call[i].params.ProjectionExpression>>

\* The call passed no raw request override.
Plain(i) == DOMAIN call[i].options.dynamodb = {}

\* The amount the call was configured with.
Amount(i) == IF call[i].options.increment = NoNumber THEN DEFAULT_INCREMENT
             ELSE call[i].options.increment[1]

\* The increments of a counter, and those the store has run.
OnCounter(t) == {i \in Increments : Target(i) = t}

IsApplied(i) == \E n \in DOMAIN applied : applied[n] = i

Writers(t) == {i \in OnCounter(t) : IsApplied(i)}

\* The requests the store ran up to and including the one of call i.
Before(i) == SubSeq(applied, 1, CHOOSE n \in DOMAIN applied : applied[n] = i)

\* The counter did not exist when the program started.
Absent0(t) == store0[<<t[1], t[2]>>].attrs[t[3]].type = "absent"

SameSign(S) == (\A k \in S : Amount(k) > 0) \/ (\A k \in S : Amount(k) < 0)

\* The sum of the amounts of the increments of counter t among s.
RECURSIVE SumOn(_, _)
SumOn(s, t) ==
    IF s = <<>> THEN 0
    ELSE SumOn(SubSeq(s, 1, Len(s) - 1), t)
         + (IF s[Len(s)] \in OnCounter(t) THEN Amount(s[Len(s)]) ELSE 0)

\* How often the callback `fn` of options, or the observer `id`, was invoked.
Invocations(i, fn, id) ==
    Cardinality({n \in DOMAIN log[i] : log[i][n].fn = fn /\ log[i][n].id = id})

(* ------------------------------- claims -------------------------------- *)

\* C1 as stated: two increments of one counter item (no raw override) that
\* both succeed return different values, whatever their amounts.
C1_AnyAmounts ==
    \A i, j \in Increments :
        (i # j /\ Target(i) = Target(j) /\ Plain(i) /\ Plain(j)
         /\ Succeeded(i) /\ Succeeded(j))
        => Returned(i) # Returned(j)

\* C1, amended: two increments of one counter item that both succeed return
\* different values, in every interleaving, provided every increment the
\* store has run on that item passed no raw override and all their amounts
\* are non-zero and of one sign.
C1_SameSignDistinct ==
    \A i, j \in Increments :
        (i # j /\ Target(i) = Target(j) /\ Succeeded(i) /\ Succeeded(j)
         /\ (\A k \in Writers(Target(i)) : Plain(k))
         /\ SameSign(Writers(Target(i))))
        => Returned(i) # Returned(j)

\* Two increments of one counter, the second invoked while the first was
\* under way, have both reported a value.
C1_Witness ==
    \E i, j \in Increments :
        /\ i < j /\ Target(i) = Target(j) /\ ~call[j].quiet
        /\ Succeeded(i) /\ Succeeded(j)
        /\ (\A k \in Writers(Target(i)) : Plain(k))
        /\ SameSign(Writers(Target(i)))

\* C2: when all N increments of a counter that did not exist add 1, pass no
\* raw override and had their store request succeed, each reported a value
\* and the values reported are exactly 1..N.
C2_OneToN ==
    \A i \in Increments :
        LET I == OnCounter(Target(i))
        IN  (/\ Absent0(Target(i))
             /\ \A j \in I : /\ Plain(j) /\ Amount(j) = 1
                             /\ Handled(j) /\ wire[j].type = "data")
            => /\ \A j \in I : Succeeded(j)
               /\ {Returned(j) : j \in I} = 1..Cardinality(I)

\* MaxOps increments by 1, all invoked before any was answered, have
\* completed on a counter that did not exist.
C2_Witness ==
    /\ Cardinality(Increments) = MaxOps
    /\ \A j \in Increments :
        /\ Target(j) = Target(1) /\ Plain(j) /\ Amount(j) = 1
        /\ Handled(j) /\ wire[j].type = "data"
        /\ j > 1 => ~call[j].quiet
    /\ Absent0(Target(1))
    /\ applied[1] # 1

\* C3: a getLastValue answered with no item, or with an item lacking the
\* count attribute, resolves with 0, gives 0 to the success callback, and
\* invokes neither the error callback nor a fail observer.
C3_AbsentIsZero ==
    \A g \in Lookups :
        (/\ Handled(g) /\ wire[g].type = "data"
         /\ \/ ~wire[g].hasItem
            \/ call[g].params.ProjectionExpression \notin DOMAIN wire[g].Item)
        => /\ promise[g] = Fulfilled(Val(0))
           /\ "success" \in call[g].options.callbacks
                => log[g][1] = [fn |-> "success", id |-> 0, arg |-> Val(0)]
           /\ \A n \in DOMAIN log[g] : log[g][n].fn \notin {"error", "fail"}

\* C4: on a counter that did not exist, an increment that succeeded
\* returned the sum of the amounts of the increments the store had run on
\* the counter up to it (each a non-zero integer, no raw override); and a
\* getLastValue that succeeded returned what the last increment the store
\* ran before it returned.
C4_RunningSum ==
    /\ \A i \in Increments :
        (/\ Succeeded(i) /\ IsApplied(i) /\ Absent0(Target(i))
         /\ \A n \in DOMAIN Before(i) :
              Before(i)[n] \in OnCounter(Target(i))
                => Plain(Before(i)[n]) /\ Amount(Before(i)[n]) # 0)
        => Returned(i) = SumOn(Before(i), Target(i))
    /\ \A g \in Lookups :
        (Succeeded(g) /\ IsApplied(g))
        => LET ran == {n \in DOMAIN Before(g) : Before(g)[n] \in OnCounter(Target(g))}
               last == Before(g)[CHOOSE n \in ran : \A m \in ran : m <= n]
           IN  (ran # {} /\ Plain(last) /\ Succeeded(last))
               => Returned(g) = Returned(last)

\* An increment by 1, one by -1 and a getLastValue, each invoked after the
\* one before it had completed, have all succeeded.
C4_Witness ==
    \E i, j \in Increments, g \in Lookups :
        /\ applied = <<i, j, g>>
        /\ Amount(i) = 1 /\ Amount(j) = -1
        /\ call[j].quiet /\ call[g].quiet
        /\ Succeeded(i) /\ Succeeded(j) /\ Succeeded(g)
        /\ Target(i) = Target(j) /\ Target(j) = Target(g)

\* C5: no step of a getLastValue call (its invocation, the store running
\* its request, its handlers, its observers) changes an item of the store.
C5_LookupKeepsStore ==
    [][\A g \in Ops :
        (call'[g].kind = "getLastValue"
         /\ (pc'[g] # pc[g] \/ log'[g] # log[g] \/ impl'[g] # impl[g]))
        => store' = store]_vars

\* A getLastValue was answered for a counter without an item, and there is
\* still no item.
C5_Witness ==
    \E g \in Lookups :
        /\ Handled(g) /\ wire[g].type = "data" /\ ~wire[g].hasItem
        /\ ~store[Item(g)].exists

\* C6: once the handlers of a call that passed success, error and complete
\* have run, success and error were invoked once between them and complete
\* was invoked once.
C6_ExactlyOnce ==
    \A i \in Ops :
        (Handled(i) /\ call[i].options.callbacks = AllCallbacks)
        => /\ Invocations(i, "success", 0) + Invocations(i, "error", 0) = 1
           /\ Invocations(i, "complete", 0) = 1

\* C7: the resolved and rejected flags of a result object are never both
\* set, and once one is set neither the flags nor the value change.
C7_Absorbing ==
    [][\A i \in Ops :
        /\ ~(impl'[i].resolved /\ impl'[i].rejected)
        /\ (impl[i].resolved \/ impl[i].rejected)
            => /\ impl'[i].resolved = impl[i].resolved
               /\ impl'[i].rejected = impl[i].rejected
               /\ impl'[i].value = impl[i].value]_vars

\* C8: an observer registered on a result that was resolved (rejected) was
\* invoked once with the value the promise resolved with (the error it
\* rejected with) if it is a done (fail) or always observer, and never if
\* it is a fail (done) observer.
C8_LateRegistration ==
    \A n \in DOMAIN registered :
        LET r == registered[n]
            i == r.op
            matching == \/ r.fn = "always"
                        \/ r.fn = "done" /\ r.resolved
                        \/ r.fn = "fail" /\ r.rejected
            other == \/ r.fn = "done" /\ r.rejected
                     \/ r.fn = "fail" /\ r.resolved
        IN  (r.resolved \/ r.rejected)
            => /\ other => Invocations(i, r.fn, r.id) = 0
               /\ (matching /\ ~other)
                    => /\ Invocations(i, r.fn, r.id) = 1
                       /\ \A m \in DOMAIN log[i] :
                            (log[i][m].fn = r.fn /\ log[i][m].id = r.id)
                                => log[i][m].arg = promise[i].value

\* C9: an observer is invoked at most once, and once the result has settled
\* an observer that matches the outcome has been invoked exactly once.
C9_ObserverOnce ==
    \A n \in DOMAIN registered :
        LET r == registered[n]
            i == r.op
            matches == \/ r.fn = "always"
                       \/ r.fn = "done" /\ promise[i].state = "fulfilled"
                       \/ r.fn = "fail" /\ promise[i].state = "rejected"
        IN  /\ Invocations(i, r.fn, r.id) <= 1
            /\ (pc[i] = "settled" /\ matches) => Invocations(i, r.fn, r.id) = 1

\* C10: once setClient has run, a call invoked without a per-call client
\* sends its request on the handle of the latest setClient; and the handle a
\* call obtained when invoked is the one its request is on and never changes.
C10_HandlePerCall ==
    [][\A i \in Ops :
        /\ (pc[i] = "idle" /\ pc'[i] = "sent" /\ lastSet # NoClient
            /\ call'[i].options.client = NoClient)
            => wire'[i].client = lastSet
        /\ pc'[i] = "sent" => wire'[i].client = call'[i].client
        /\ pc[i] # "idle" => call'[i].client = call[i].client]_vars

\* A request is in flight on the handle built before setClient ran, and a
\* later call has sent its request on the handle setClient installed.
C10_Witness ==
    \E i, j \in Ops :
        /\ i < j /\ lastSet # NoClient
        /\ pc[i] = "sent" /\ wire[i].client = NewClient(1)
        /\ pc[j] = "sent" /\ wire[j].client = lastSet
        /\ call[j].options.client = NoClient


\* C11: the amount in the request of an increment (no raw override of the
\* expression values) is options.increment when one was passed, whatever
\* its value, and 1 when none was.
C11_AmountAsConfigured ==
    \A i \in Increments :
        "ExpressionAttributeValues" \notin DOMAIN call[i].options.dynamodb
        => NumberOf(call[i].params.ExpressionAttributeValues.N) = Amount(i)

\* C12: once the handlers of a call whose store request failed have run,
\* the promise is rejected with the store's error, the error and complete
\* callbacks that were passed were each invoked once with that error, and
\* success was not invoked; once the result object has settled it is
\* rejected with that error, every fail and always observer was invoked
\* once with it, and no done observer was invoked.
C12_StoreErrorDelivered ==
    \A i \in Ops :
        (Handled(i) /\ wire[i].type = "error")
        => /\ promise[i] = Rejected(StoreError)
           /\ Invocations(i, "success", 0) = 0
           /\ \A f \in call[i].options.callbacks \ {"success"} :
                /\ Invocations(i, f, 0) = 1
                /\ \A n \in DOMAIN log[i] :
                     log[i][n].fn = f => log[i][n].arg = StoreError
           /\ pc[i] = "settled"
                => /\ impl[i].rejected /\ ~impl[i].resolved
                   /\ impl[i].value = StoreError
                   /\ \A n \in DOMAIN registered :
                        registered[n].op = i
                        => IF registered[n].fn = "done"
                           THEN Invocations(i, "done", registered[n].id) = 0
                           ELSE /\ Invocations(i, registered[n].fn, registered[n].id) = 1
                                /\ \A m \in DOMAIN log[i] :
                                     log[i][m].id = registered[n].id
                                     => log[i][m].arg = StoreError

\* C13: once the handlers of an increment have run, either the store
\* applied its update and the call reported a number and no error, or the
\* store did not apply it and the call reported no number.
C13_NoPartialSuccess ==
    \A i \in Increments :
        Handled(i)
        => IF IsApplied(i)
           THEN /\ Succeeded(i)
                /\ Invocations(i, "error", 0) = 0
                /\ promise[i].state # "rejected"
           ELSE ~Succeeded(i)

\* Whether the N of a response is the string of an integer.
NumberString(s) ==
    LET digits == IF s # <<>> /\ Head(s) = "-" THEN Tail(s) ELSE s
    IN  digits # <<>> /\ \A k \in DOMAIN digits : IsDigit(digits[k])

\* The count attribute is missing from, or not a number in, the response.
Malformed(map, countAttribute, mayBeAbsent) ==
    IF countAttribute \notin DOMAIN map THEN ~mayBeAbsent
    ELSE ~NumberString(map[countAttribute].N)

\* C14: a call whose store request succeeded with a count attribute that is
\* not a number (or, for increment, with none) reports no number and
\* invokes the error callback; getLastValue reports 0 only when the item or
\* the attribute is absent or the stored number is 0.
C14_MalformedFails ==
    \A i \in Ops :
        (Handled(i) /\ wire[i].type = "data")
        => LET attr == OrString(call[i].options.countAttribute, DEFAULT_COUNT_ATTRIBUTE)
               map == IF call[i].kind = "increment" THEN wire[i].Attributes
                      ELSE wire[i].Item
           IN  /\ Malformed(map, attr, call[i].kind = "getLastValue")
                    => /\ ~Succeeded(i)
                       /\ "error" \in call[i].options.callbacks
                            => Invocations(i, "error", 0) >= 1
               /\ (call[i].kind = "getLastValue" /\ Succeeded(i) /\ Returned(i) = 0)
                    => \/ attr \notin DOMAIN map
                       \/ map[attr].N = <<"0">>

\* What the promise of a call settles as when no callback throws: the
\* number read from the response of its own request, or the error.
Expected(i) ==
    LET attr == OrString(call[i].options.countAttribute, DEFAULT_COUNT_ATTRIBUTE)
        extracted == IF call[i].kind = "increment" THEN newCountValue(wire[i], attr)
                     ELSE lastValue(wire[i], attr)
    IN  IF wire[i].type # "data" THEN Rejected(StoreError)
        ELSE IF extracted.isError THEN Rejected(extracted)
        ELSE Fulfilled(extracted)

\* C15: a step in which a call fails (its send fails, its promise or its
\* result object becomes rejected) leaves the shared client handle and every
\* field of every other call unchanged; and a call whose handlers run after
\* another call has failed settles as its own response says.
C15_FailureIsLocal ==
    [][\A i \in Ops :
        /\ (\/ wire'[i].type = "error" /\ wire[i].type # "error"
            \/ promise'[i].state = "rejected" /\ promise[i].state # "rejected"
            \/ impl'[i].rejected /\ ~impl[i].rejected)
            => /\ dynamoClient' = dynamoClient
               /\ created' = created
               /\ \A j \in Ops \ {i} :
                    /\ pc'[j] = pc[j] /\ call'[j] = call[j] /\ wire'[j] = wire[j]
                    /\ promise'[j] = promise[j] /\ log'[j] = log[j]
                    /\ impl'[j] = impl[j]
        /\ (/\ pc[i] = "responded" /\ pc'[i] = "handled" /\ ~budget.throws
            /\ \E j \in Ops \ {i} : wire[j].type = "error" \/ promise[j].state = "rejected")
            => promise'[i] = Expected(i)]_vars

\* A call has failed and its result object is rejected while the response
\* of another call, invoked before that, is still on its way.
C15_Witness ==
    \E i, j \in Ops :
        /\ i # j /\ pc[i] = "settled" /\ impl[i].rejected
        /\ wire[i].type = "error"
        /\ pc[j] = "responded" /\ wire[j].type = "data" /\ ~call[j].quiet
        /\ dynamoClient = NewClient(1)

\* C16: once the store has responded to the request of a call and the
\* handlers chained on client.send() have run, the result object of the
\* call eventually leaves Pending.
C16_Settles ==
    \A i \in Ops :
        (pc[i] = "handled") ~> (impl[i].resolved \/ impl[i].rejected)

\* C17: a call that passes a per-call client sends its request on that
\* client and leaves the module handle as it was, neither created nor
\* replaced; a call without one sends on the module handle, which it creates
\* only when there is none; the module handle changes only by setClient or by
\* that one creation, so that between two setClient calls getClient() and every
\* call without a per-call client see the same handle, and at most one handle
\* is ever created.
C17_ClientResolution ==
    [][/\ \A i \in Ops : (pc[i] = "idle" /\ pc'[i] = "sent") =>
            IF call'[i].options.client # NoClient
            THEN /\ wire'[i].client = call'[i].options.client
                 /\ dynamoClient' = dynamoClient
                 /\ created' = created
            ELSE /\ wire'[i].client = dynamoClient'
                 /\ dynamoClient' # NoClient
                 /\ dynamoClient # NoClient =>
                        dynamoClient' = dynamoClient /\ created' = created
                 /\ dynamoClient = NoClient =>
                        dynamoClient' = NewClient(created') /\ created' = created + 1
       /\ getDynamoClient(NoClient).client = getDynamoClient(NoClient).dynamoClient
       /\ dynamoClient # NoClient => getDynamoClient(NoClient).client = dynamoClient
       /\ dynamoClient' # dynamoClient =>
            \/ lastSet' # lastSet /\ dynamoClient' = lastSet'
            \/ dynamoClient = NoClient /\ dynamoClient' = NewClient(1)
       /\ created' <= 1]_vars

\* A request is in flight on a per-call client while no module handle
\* exists yet, and a later call without one has created the module handle
\* and sent its request on it.
C17_Witness ==
    \E i, j \in Ops :
        /\ i < j
        /\ pc[i] = "sent" /\ call[i].options.client = PerCallClient
        /\ wire[i].client = PerCallClient
        /\ pc[j] = "sent" /\ call[j].options.client = NoClient
        /\ wire[j].client = NewClient(1) /\ dynamoClient = NewClient(1)
        /\ created = 1

\* The registrations that found the result object unsettled: the observer
\* was pushed on the list of its category.
Queued == {n \in DOMAIN registered :
              ~registered[n].resolved /\ ~registered[n].rejected}

\* C18: an observer registered before the result object settles is not
\* invoked while the object is unsettled, and of two observers of one
\* category queued on the same result object, every invocation of the one
\* registered later is preceded by an invocation of the one registered
\* earlier.
C18_RegistrationOrder ==
    /\ \A n \in Queued :
          LET r == registered[n]
          IN  (~impl[r.op].resolved /\ ~impl[r.op].rejected)
                  => Invocations(r.op, r.fn, r.id) = 0
    /\ \A a, b \in Queued :
          LET r1 == registered[a]
              r2 == registered[b]
          IN  (a < b /\ r1.op = r2.op /\ r1.fn = r2.fn) =>
                  \A n \in DOMAIN log[r1.op] :
                      (log[r1.op][n].fn = r2.fn /\ log[r1.op][n].id = r2.id) =>
                          \E m \in 1..(n - 1) :
                              /\ log[r1.op][m].fn = r1.fn
                              /\ log[r1.op][m].id = r1.id

\* Two observers of one category were queued on one result object and both
\* have been invoked at its settlement.
C18_Witness ==
    \E a, b \in Queued :
        /\ a < b
        /\ registered[a].op = registered[b].op
        /\ registered[a].fn = registered[b].fn
        /\ Invocations(registered[a].op, registered[a].fn, registered[a].id) > 0
        /\ Invocations(registered[b].op, registered[b].fn, registered[b].id) > 0

\* The request fields a call derives from counterId and its options alone.
Derived(i) ==
    LET options == [call[i].options EXCEPT !.dynamodb = NoMap]
    IN  IF call[i].kind = "increment" THEN incrementParams(call[i].counterId, options)
        ELSE getLastValueParams(call[i].counterId, options)

\* The request of call i has the fields of options.dynamodb as supplied and
\* every other derived field as derived.
Merged(i) ==
    LET overrides == call[i].options.dynamodb
    IN  /\ DOMAIN call[i].params = DOMAIN Derived(i) \cup DOMAIN overrides
        /\ \A f \in DOMAIN overrides : call[i].params[f] = overrides[f]
        /\ \A f \in DOMAIN Derived(i) \ DOMAIN overrides :
                call[i].params[f] = Derived(i)[f]

\* C19: in the request a call sends, every field of options.dynamodb
\* replaces the derived field of that name and every other derived field is
\* sent as derived; so when the store runs an increment whose override names
\* another key, the item of counterId stays as it was, and when the override
\* makes the expression an assignment, the attribute becomes the amount sent
\* whatever it held.
C19_OverrideWins ==
    [][\A i \in Ops :
        /\ pc'[i] # "idle" => (Merged(i))'
        /\ (pc[i] = "sent" /\ applied' = Append(applied, i)
                /\ call[i].kind = "increment") =>
              LET params == call[i].params
                  named == <<Derived(i).TableName, call[i].counterId>>
              IN  /\ params.Key.S # call[i].counterId =>
                        /\ store'[named] = store[named]
                        /\ store'[Item(i)] # store[Item(i)]
                  /\ params.UpdateExpression[1] = "SET" =>
                        store'[Item(i)].attrs[params.UpdateExpression[2]] =
                            NumberAttribute(NumberOf(params.ExpressionAttributeValues.N))]_vars

\* The store has run an increment of "Users" whose override names the key
\* "Clients": the item of "Users" is as it was when the program started and
\* the item of "Clients" holds the amount.
C19_Witness ==
    \E i \in Increments :
        /\ IsApplied(i)
        /\ call[i].counterId = "Users"
        /\ call[i].options.dynamodb = KeyOverride
        /\ call[i].params.Key.S = "Clients"
        /\ store[<<DEFAULT_TABLE_NAME, "Users">>] = store0[<<DEFAULT_TABLE_NAME, "Users">>]
        /\ store[<<DEFAULT_TABLE_NAME, "Clients">>].attrs[DEFAULT_COUNT_ATTRIBUTE]
               = NumberAttribute(Amount(i))

\* The position in the log of call i of the first invocation of the
\* callback `fn` of options (id 0) or of the observer `id`; 0 when none.
First(i, fn, id) ==
    LET at == {n \in DOMAIN log[i] : log[i][n].fn = fn /\ log[i][n].id = id}
    IN  IF at = {} THEN 0 ELSE CHOOSE n \in at : \A m \in at : n <= m

\* The callbacks of options: every invocation of complete directly follows
\* the invocation of success (for a value) or error (for an error) with the
\* same argument, when that callback was supplied.
OutcomeBeforeComplete(i) ==
    \A n \in DOMAIN log[i] :
        LET first == IF log[i][n].arg.isError THEN "error" ELSE "success"
        IN  (log[i][n].fn = "complete" /\ first \in call[i].options.callbacks) =>
                /\ n > 1
                /\ log[i][n - 1].fn = first
                /\ log[i][n - 1].arg = log[i][n].arg

\* No observer is invoked before a callback of options.
CallbacksBeforeObservers(i) ==
    \A m, n \in DOMAIN log[i] :
        (log[i][m].id = 0 /\ log[i][n].id # 0) => m < n

\* Of the observers queued on the result object of call i that were invoked,
\* every done and every fail observer was invoked before every always
\* observer.
QueuedAlwaysLast(i) ==
    \A a, b \in Queued :
        LET r == registered[a]
            q == registered[b]
        IN  (/\ r.op = i /\ q.op = i
             /\ r.fn \in {"done", "fail"} /\ q.fn = "always"
             /\ First(i, r.fn, r.id) # 0 /\ First(i, q.fn, q.id) # 0)
                => First(i, r.fn, r.id) < First(i, q.fn, q.id)

\* C20: within one invocation the callback of options for the outcome is
\* invoked before complete, both before any observer of the result object,
\* and the queued done or fail observers before any queued always observer.
C20_Ordered ==
    \A i \in Ops :
        /\ OutcomeBeforeComplete(i)
        /\ CallbacksBeforeObservers(i)
        /\ QueuedAlwaysLast(i)


====
